---- MODULE Spec2Model ----
(***************************************************************************)
(* Terma: the session registry (SessionManager), the PTY terminal          *)
(* (TerminalSession) and the per-session WebSocket fan-out handler         *)
(* (TerminalWebSocketHandler), as one state machine.                       *)
(*                                                                         *)
(* The asyncio event loop runs one coroutine at a time, so every action    *)
(* below is the code between two suspension points (await) of a handler.   *)
(***************************************************************************)
EXTENDS Integers, Sequences, FiniteSets, TLC

\* ------------------------------------------------------------------ bounds
MaxTerms == 2            \* TerminalSession objects constructed in one run
MaxPublish == 2          \* chunks the pumps read for one session id
BufferLimit == 3         \* stands for the 50000 of websocket.py:92-93, scaled
MaxTime == 3             \* the clock stops here
idle_timeout == 1        \* stands for the 86400 of session_manager.py:20, scaled
MaxFrames == 2           \* text frames the clients send, all in all
MaxDirect == 1           \* TerminalSession objects a caller constructs itself
MaxKills == 2            \* calls of pty.terminate on one such object
MaxAdds == 12            \* add_message calls on an adapter used directly
MaxRaisers == 1          \* callbacks that raise, on one TerminalSession

SessionIds == {"X"}
RegistryIds == SessionIds \cup {"Y"}    \* the keys SessionManager.sessions may
                                        \*   have; "Y" is used by the callers
                                        \*   that list the registry
Clients == {"w1", "w2"}                 \* WebSocket connections
AsyncCalls == {"c1", "c2"}              \* create_session_async invocations
ChunkData == {<<"a">>, <<"b", "c">>}    \* what one PTY read may return
StartOutcomes == {"ok", "spawn_fail", "fd_fail"}
InputData == {"x"}                      \* the data of a write
ContextIds == {"X", "Y"}                \* session ids an LLMAdapter is given
Adapters == Clients \cup {"direct"}     \* whose LLMAdapter: that of a
                                        \*   connection's request, or one that
                                        \*   a caller uses directly
Roles == {"user", "assistant"}
WinSizes == {<<40, 132>>, <<1001, 80>>} \* <<rows, cols>> of a resize
ReadOutcomes == {"data", "eof", "eagain", "error"}  \* what pty.read does:
                                        \*   return data, or raise EOFError,
                                        \*   OSError with errno 11 (would
                                        \*   block) or something else

None == 0
TermIds == 1..MaxTerms

\* <<rows, cols>>: the defaults of a resize frame, "data.get("rows", 24)" and
\* "data.get("cols", 80)", which are also the size a PTY is spawned with
DefaultSize == <<24, 80>>

VARIABLES
    sessions,        \* SessionManager.sessions: id -> TerminalSession (None: absent)
    locks,           \* SessionManager.locks: the ids that have a lock entry
    nextTerm,        \* the next TerminalSession object to be constructed
    terms,           \* the TerminalSession objects' fields
    calls,           \* create_session_async invocations: position, id, the
                     \*   TerminalSession built, start's result; history:
                     \*   whether another call for the id ran at the same time
    handlers,        \* TerminalWebSocketServer.handlers: ids that have a handler
    websockets,      \* TerminalWebSocketHandler.websockets, per handler
    output_buffer,   \* TerminalWebSocketHandler.output_buffer, per handler
    buffer_lock,     \* TerminalWebSocketHandler.buffer_lock, per handler
    ready,           \* _handle_terminal_output tasks created and not yet started
    nextCb,          \* lambda objects created so far (each lambda is a new object)
    conn,            \* per WebSocket connection: position in handle_connection
                     \*   and the code it was closed with by the server
    sent,            \* history: the frames passed to websocket.send, per client
    pubLog,          \* history: the chunks the pump read, per session id, each
                     \*   with the number of clients attached at that moment
    attachAt,        \* history: when the client was added, Len(pubLog), the
                     \*   backlog, whether no output task was pending, and
                     \*   the TerminalSession registered under the id
    ret,             \* history: the last value returned by a registry operation
    now,             \* time.time()
    running,         \* SessionManager._running
    cleanup_task,    \* SessionManager._cleanup_task: "none", "scheduled" (about
                     \*   to start, or in asyncio.sleep), "cancelled", "done"
    inbox,           \* per connection: the frames received and not yet
                     \*   yielded by "async for message in websocket"
    contexts,        \* LLMAdapter._session_contexts of the adapter made for
                     \*   the request a connection is handling, and of an
                     \*   adapter used directly: id -> list of messages
    added,           \* history: every message passed to add_message, or, for
                     \*   the requests of the connections, that an adapter of
                     \*   the session was given, per id
    inbound          \* per connection: where handle_connection's message
                     \*   loop is and whether the peer is still there;
                     \*   history: how many frames the peer has sent, how
                     \*   many llm_assist requests found their session, and
                     \*   the branch handle_message took for each frame

vars == <<sessions, locks, nextTerm, terms, calls, handlers, websockets,
          output_buffer, buffer_lock, ready, nextCb, conn, sent, pubLog,
          attachAt, ret, now, running, cleanup_task, inbox, inbound, contexts,
          added>>

registryVars == <<sessions, locks, nextTerm, terms, calls>>
hubVars == <<handlers, websockets, output_buffer, buffer_lock, ready, nextCb,
             conn, sent, pubLog, attachAt>>
lifeVars == <<now, running, cleanup_task>>
bridgeVars == <<inbox, inbound>>
llmVars == <<contexts, added>>

\* ------------------------------------------------------------ sequences
Range(q) == {q[i] : i \in 1..Len(q)}

\* Python's q[-n:] for n > 0
LastN(q, n) == IF Len(q) <= n THEN q ELSE SubSeq(q, Len(q) - n + 1, Len(q))

RECURSIVE Flatten(_)
Flatten(qs) == IF qs = <<>> THEN <<>> ELSE Head(qs) \o Flatten(Tail(qs))

RECURSIVE RemoveFirst(_, _)
RemoveFirst(q, x) ==
    IF q = <<>> THEN <<>>
    ELSE IF Head(q) = x THEN Tail(q)
    ELSE <<Head(q)>> \o RemoveFirst(Tail(q), x)

\* ------------------------------------------------------- TerminalSession
\* TerminalSession.__init__. Beside the fields of the class: terminated
\* counts the calls of pty.terminate(force=True), stdin is the last data
\* given to pty.write and winsize the last size given to pty.setwinsize
\* (the PTY's side of the object); last_io is history, the time of the last
\* read or write, or of the construction. read_task is "none", "running" (the
\* read loop is at its "while" test or in its sleep), "reading" (it awaits
\* the executor's pty.read), "cancelled" or "done".
Terminal(s) ==
    [session_id |-> s, active |-> FALSE, pty |-> "none",
     output_callbacks |-> <<>>, read_task |-> "none",
     last_activity |-> now, terminated |-> 0, stdin |-> "", winsize |-> DefaultSize,
     last_io |-> now]

\* TerminalSession._start_read_loop: the task is created only on a running loop
start_read_loop(T, ctx) ==
    IF ctx = "loop" THEN [T EXCEPT !.read_task = "running"] ELSE T

\* TerminalSession.start. ctx is where it runs: "loop" (a coroutine of the
\* running event loop), "noloop" (no loop running) or "executor" (a worker
\* thread, where asyncio.get_event_loop() raises RuntimeError and the outer
\* except returns False after active was set).
start(T, ctx, outcome) ==
    IF T.active THEN [term |-> T, result |-> TRUE]
    ELSE IF outcome = "spawn_fail" THEN [term |-> T, result |-> FALSE]
    ELSE IF outcome = "fd_fail"
        THEN [term |-> [T EXCEPT !.pty = "alive"], result |-> FALSE]
    ELSE LET T1 == [T EXCEPT !.pty = "alive", !.active = TRUE] IN
         IF ctx = "executor" THEN [term |-> T1, result |-> FALSE]
         ELSE [term |-> start_read_loop(T1, ctx), result |-> TRUE]

\* TerminalSession.stop. raises: pty.isalive()/pty.terminate() raised.
stop(T, raises) ==
    IF ~T.active THEN [term |-> T, result |-> TRUE]
    ELSE LET T1 == [T EXCEPT !.read_task =
                        IF @ \in {"running", "reading"} THEN "cancelled" ELSE @]
             T2 == [T1 EXCEPT !.terminated =
                        IF T1.pty = "alive" THEN @ + 1 ELSE @]
         IN
         IF T1.pty # "none" /\ raises THEN [term |-> T2, result |-> FALSE]
         ELSE [term |-> [T2 EXCEPT !.active = FALSE,
                                   !.pty = IF @ = "alive" THEN "dead" ELSE @],
               result |-> TRUE]

\* TerminalSession.register_output_callback
register_output_callback(cbs, cb) == Append(cbs, cb)

\* TerminalSession.unregister_output_callback
unregister_output_callback(cbs, cb) ==
    IF cb \in Range(cbs) THEN RemoveFirst(cbs, cb) ELSE cbs

\* TerminalSession.write. raises: pty.write raised.
write(T, data, raises) ==
    IF ~T.active \/ T.pty = "none" THEN [term |-> T, result |-> FALSE]
    ELSE LET T1 == [T EXCEPT !.last_activity = now, !.last_io = now] IN
         IF raises THEN [term |-> T1, result |-> FALSE]
         ELSE [term |-> [T1 EXCEPT !.stdin = data], result |-> TRUE]

\* C25 mutant: last_activity is set back to the epoch
resize_epoch(T, size, raises) ==
    IF ~T.active \/ T.pty = "none" THEN [term |-> T, result |-> FALSE]
    ELSE [term |-> [T EXCEPT !.last_activity = 0, !.winsize = size],
          result |-> ~raises]

\* TerminalSession.resize. raises: pty.setwinsize raised.
resize(T, size, raises) ==
    IF ~T.active \/ T.pty = "none" THEN [term |-> T, result |-> FALSE]
    ELSE LET T1 == [T EXCEPT !.last_activity = now] IN
         IF raises THEN [term |-> T1, result |-> FALSE]
         ELSE [term |-> [T1 EXCEPT !.winsize = size], result |-> TRUE]

\* TerminalSession.read: the data read, "" (would block) or "None"
read(T, outcome) ==
    IF ~T.active \/ T.pty = "none" THEN [term |-> T, result |-> "None"]
    ELSE LET T1 == [T EXCEPT !.last_activity = now, !.last_io = now] IN
         IF outcome = "data" THEN [term |-> T1, result |-> "data"]
         ELSE IF outcome = "eof"
             THEN [term |-> [T1 EXCEPT !.active = FALSE], result |-> "None"]
         ELSE IF outcome = "eagain" THEN [term |-> T1, result |-> ""]
         ELSE [term |-> T1, result |-> "None"]

\* TerminalSession._read_loop, the test of its "while": on to the executor's
\* pty.read, or out of the loop
read_loop_test(T) ==
    IF T.active /\ T.pty = "alive" THEN [T EXCEPT !.read_task = "reading"]
    ELSE [T EXCEPT !.read_task = "done"]

\* C33 mutant: after a read that returned data the loop waits for the
\* callbacks' sends
read_loop_result_awaiting(T, outcome) ==
    IF outcome = "data"
    THEN [T EXCEPT !.last_activity = now, !.last_io = now, !.read_task = "publishing"]
    ELSE IF outcome = "eof"
        THEN [T EXCEPT !.active = FALSE, !.read_task = "done"]
    ELSE [T EXCEPT !.read_task = "running"]

\* TerminalSession._read_loop after "await run_in_executor(...)": what it
\* does to the object; with data it goes on to call the callbacks. An
\* OSError, would-block or not, and any other exception are logged and the
\* loop goes on to its sleep.
read_loop_result(T, outcome) ==
    IF outcome = "data"
    THEN [T EXCEPT !.last_activity = now, !.last_io = now, !.read_task = "running"]
    ELSE IF outcome = "eof"
        THEN [T EXCEPT !.active = FALSE, !.read_task = "done"]
    ELSE IF outcome = "eagain" THEN [T EXCEPT !.read_task = "running"]
    ELSE [T EXCEPT !.read_task = "running"]

\* --------------------------------------------------------- SessionManager
\* The registry's state as one value: the operations below are functions of it.
Registry == [sessions |-> sessions, locks |-> locks, nextTerm |-> nextTerm,
             terms |-> terms]

\* C6 mutant: the duplicate check is left out
session_exists_unchecked(S, s) == FALSE

\* "if session_id in self.sessions"
session_exists(S, s) == S[s] # None

\* SessionManager.get_session
get_session(S, s) == S[s]

\* SessionManager.create_session, as run by a coroutine of the event loop
\* (POST /api/sessions, handle_connection): the registry after it, and its
\* return value. The new TerminalSession is object R.nextTerm.
create_session(R, s, outcome) ==
    IF session_exists(R.sessions, s)
    THEN [reg |-> R, result |-> s, present |-> TRUE]
    ELSE LET r == start(Terminal(s), "loop", outcome)
             R1 == [R EXCEPT !.terms[R.nextTerm] = r.term,
                             !.nextTerm = R.nextTerm + 1]
         IN IF r.result
            THEN [reg |-> [R1 EXCEPT !.sessions[s] = R.nextTerm,
                                     !.locks = R.locks \cup {s}],
                  result |-> s, present |-> FALSE]
            ELSE [reg |-> R1, result |-> "None", present |-> FALSE]

\* SessionManager.close_session
close_session(R, s, raises) ==
    LET session == get_session(R.sessions, s) IN
    IF session = None
    THEN [reg |-> R, result |-> "False", present |-> FALSE]
    ELSE LET r == stop(R.terms[session], raises) IN
         [reg |-> [R EXCEPT !.terms[session] = r.term,
                            !.sessions[s] = None,
                            !.locks = R.locks \ {s}],
          result |-> IF r.result THEN "True" ELSE "False",
          present |-> TRUE]

\* SessionManager.write_to_session
write_to_session(R, s, data, raises) ==
    LET session == get_session(R.sessions, s) IN
    IF session = None THEN [reg |-> R, result |-> "False"]
    ELSE LET r == write(R.terms[session], data, raises) IN
         [reg |-> [R EXCEPT !.terms[session] = r.term],
          result |-> IF r.result THEN "True" ELSE "False"]

\* SessionManager.resize_session
resize_session(R, s, size, raises) ==
    LET session == get_session(R.sessions, s) IN
    IF session = None THEN [reg |-> R, result |-> "False"]
    ELSE LET r == resize(R.terms[session], size, raises) IN
         [reg |-> [R EXCEPT !.terms[session] = r.term],
          result |-> IF r.result THEN "True" ELSE "False"]

\* SessionManager.read_from_session
read_from_session(R, s, outcome) ==
    LET session == get_session(R.sessions, s) IN
    IF session = None THEN [reg |-> R, result |-> "None"]
    ELSE LET r == read(R.terms[session], outcome) IN
         [reg |-> [R EXCEPT !.terms[session] = r.term], result |-> r.result]

\* TerminalSession.get_info
get_info(T) ==
    [id |-> T.session_id, active |-> T.active, last_activity |-> T.last_activity,
     idle_time |-> now - T.last_activity]

\* C28 mutant: a record for every TerminalSession constructed so far
list_sessions_constructed(R) ==
    [t \in 1..(R.nextTerm - 1) |-> get_info(R.terms[t])]

\* SessionManager.list_sessions: "[session.get_info() for session in
\* self.sessions.values()]"; the values are taken in the order the
\* TerminalSession objects were constructed
list_sessions(R) ==
    LET values == SelectSeq([t \in 1..(R.nextTerm - 1) |-> t],
                            LAMBDA t : \E s \in DOMAIN R.sessions : R.sessions[s] = t)
    IN [i \in 1..Len(values) |-> get_info(R.terms[values[i]])]

\* "for session_id in ...: self.close_session(session_id)" over the ids in
\* S; raising is the set of ids whose stop() raises.
RECURSIVE close_each(_, _, _)
close_each(R, S, raising) ==
    IF S = {} THEN R
    ELSE LET s == CHOOSE x \in S : TRUE IN
         close_each(close_session(R, s, s \in raising).reg, S \ {s}, raising)

\* C35 mutant: a session is closed as soon as its idle time reaches the limit
idle_sessions_eager(R) ==
    {s \in DOMAIN R.sessions :
        /\ R.sessions[s] # None
        /\ now - R.terms[R.sessions[s]].last_activity >= idle_timeout}

\* SessionManager._cleanup_idle_sessions: the ids it closes
idle_sessions(R) ==
    {s \in DOMAIN R.sessions :
        /\ R.sessions[s] # None
        /\ now - R.terms[R.sessions[s]].last_activity > idle_timeout}

\* SessionManager._start_cleanup_task
start_cleanup_task(task, ctx) == IF ctx = "loop" THEN "scheduled" ELSE task

SetRegistry(R) ==
    /\ sessions' = R.sessions
    /\ locks' = R.locks
    /\ nextTerm' = R.nextTerm
    /\ terms' = R.terms

\* What an operation of the registry returned, and whether the id was in
\* the registry when it was called; list is the list list_sessions returned
\* and term the TerminalSession get_session returned
Ret(op, s, present, result) ==
    [op |-> op, sid |-> s, present |-> present, result |-> result,
     list |-> <<>>, term |-> None]

\* DELETE /api/sessions/{id}: "if not success: raise HTTPException(404)"
delete_status(result) == IF result = "True" THEN 200 ELSE 404

\* POST /api/sessions: "if not session_id: raise HTTPException(500)"
post_status(result) == IF result = "None" THEN 500 ELSE 200

\* A TerminalSession object can still be constructed within the bound.
CanConstruct(s) == session_exists(sessions, s) \/ nextTerm <= MaxTerms

\* A caller of SessionManager.create_session(session_id=s); POST /api/sessions
\* is one of them.
CreateSession(s, outcome) ==
    /\ CanConstruct(s)
    /\ LET c == create_session(Registry, s, outcome) IN
         /\ SetRegistry(c.reg)
         /\ ret' = Ret("create_session", s, c.present, c.result)
    /\ UNCHANGED <<calls, hubVars, lifeVars, bridgeVars, llmVars>>

\* Call c of create_session_async for id s is between its check of
\* self.sessions and its return.
InFlight(c, s) == calls[c].sid = s /\ calls[c].pc \in {"submitted", "executed"}

\* SessionManager.create_session_async up to "await run_in_executor(...)"
CreateAsyncBegin(c, s) ==
    /\ calls[c].pc = "idle"
    /\ CanConstruct(s)
    /\ IF session_exists(sessions, s)
       THEN /\ calls' = [calls EXCEPT ![c] = [pc |-> "done", sid |-> s,
                                              term |-> None, success |-> FALSE,
                                              overlapped |-> FALSE]]
            /\ ret' = Ret("create_session_async", s, TRUE, s)
            /\ UNCHANGED <<sessions, locks, nextTerm, terms>>
       ELSE /\ locks' = locks \cup {s}
            /\ terms' = [terms EXCEPT ![nextTerm] = Terminal(s)]
            /\ nextTerm' = nextTerm + 1
            /\ calls' = [d \in AsyncCalls |->
                          IF d = c
                          THEN [pc |-> "submitted", sid |-> s, term |-> nextTerm,
                                success |-> FALSE,
                                overlapped |-> \E e \in AsyncCalls : InFlight(e, s)]
                          ELSE [calls[d] EXCEPT !.overlapped =
                                                   @ \/ InFlight(d, s)]]
            /\ UNCHANGED <<sessions, ret>>
    /\ UNCHANGED <<hubVars, lifeVars, bridgeVars, llmVars>>

\* session.start running in the ThreadPoolExecutor worker
CreateAsyncExec(c, outcome) ==
    /\ calls[c].pc = "submitted"
    /\ LET r == start(terms[calls[c].term], "executor", outcome) IN
         /\ terms' = [terms EXCEPT ![calls[c].term] = r.term]
         /\ calls' = [calls EXCEPT ![c].pc = "executed", ![c].success = r.result]
    /\ UNCHANGED <<sessions, locks, nextTerm, hubVars, ret, lifeVars, bridgeVars, llmVars>>

\* create_session_async after the await: "if success: ... else: ..."
CreateAsyncFinish(c) ==
    /\ calls[c].pc = "executed"
    /\ LET s == calls[c].sid IN
         IF calls[c].success
         THEN /\ sessions' = [sessions EXCEPT ![s] = calls[c].term]
              /\ ret' = Ret("create_session_async", s, FALSE, s)
              /\ UNCHANGED locks
         ELSE /\ locks' = locks \ {s}
              /\ ret' = Ret("create_session_async", s, FALSE, "None")
              /\ UNCHANGED sessions
    /\ calls' = [calls EXCEPT ![c].pc = "done"]
    /\ UNCHANGED <<nextTerm, terms, hubVars, lifeVars, bridgeVars, llmVars>>

\* A caller of SessionManager.close_session(s); DELETE /api/sessions/{id}
\* is one of them.
CloseSession(s, raises) ==
    /\ LET c == close_session(Registry, s, raises) IN
         /\ SetRegistry(c.reg)
         /\ ret' = Ret("close_session", s, c.present, c.result)
    /\ UNCHANGED <<calls, hubVars, lifeVars, bridgeVars, llmVars>>

\* A caller of SessionManager.write_to_session; POST .../write is one.
WriteToSession(s, data, raises) ==
    /\ LET c == write_to_session(Registry, s, data, raises) IN
         /\ SetRegistry(c.reg)
         /\ ret' = Ret("write", s, sessions[s] # None, c.result)
    /\ UNCHANGED <<calls, hubVars, lifeVars, bridgeVars, llmVars>>

\* A caller of SessionManager.resize_session
ResizeSession(s, size, raises) ==
    /\ LET c == resize_session(Registry, s, size, raises) IN
         /\ SetRegistry(c.reg)
         /\ ret' = Ret("resize", s, sessions[s] # None, c.result)
    /\ UNCHANGED <<calls, hubVars, lifeVars, bridgeVars, llmVars>>

\* A caller of SessionManager.read_from_session; GET .../read is one.
ReadFromSession(s, outcome) ==
    /\ LET c == read_from_session(Registry, s, outcome) IN
         /\ SetRegistry(c.reg)
         /\ ret' = Ret("read", s, sessions[s] # None, c.result)
    /\ UNCHANGED <<calls, hubVars, lifeVars, bridgeVars, llmVars>>

\* A caller of SessionManager.list_sessions; GET /api/sessions is one.
ListSessions ==
    /\ ret' = [Ret("list_sessions", "-", FALSE, "list") EXCEPT
                  !.list = list_sessions(Registry)]
    /\ UNCHANGED <<registryVars, hubVars, lifeVars, bridgeVars, llmVars>>

\* A caller of SessionManager.get_session; GET /api/sessions/{id} is one.
GetSession(s) ==
    /\ ret' = [Ret("get_session", s, sessions[s] # None, "session") EXCEPT
                  !.term = get_session(sessions, s)]
    /\ UNCHANGED <<registryVars, hubVars, lifeVars, bridgeVars, llmVars>>

\* SessionManager.start, called by get_session_manager in the startup event
ManagerStart ==
    /\ IF running THEN UNCHANGED <<running, cleanup_task>>
       ELSE /\ running' = TRUE
            /\ cleanup_task' = start_cleanup_task(cleanup_task, "loop")
    /\ ret' = Ret("start", "-", FALSE, "None")
    /\ UNCHANGED <<registryVars, hubVars, now, bridgeVars, llmVars>>

\* SessionManager.stop; raising: the registered ids whose stop() raises
ManagerStop(raising) ==
    /\ IF running
       THEN /\ running' = FALSE
            /\ cleanup_task' = IF cleanup_task = "scheduled" THEN "cancelled"
                               ELSE cleanup_task
            /\ SetRegistry(close_each(Registry,
                                      {s \in SessionIds : sessions[s] # None},
                                      raising))
       ELSE UNCHANGED <<running, cleanup_task, sessions, locks, nextTerm, terms>>
    /\ ret' = Ret("stop", "-", FALSE, "None")
    /\ UNCHANGED <<calls, hubVars, now, bridgeVars, llmVars>>

\* SessionManager._cleanup_loop: one turn of its "while", that is one
\* _cleanup_idle_sessions, up to the sleep that follows
ReaperTick(raising) ==
    /\ cleanup_task = "scheduled"
    /\ IF running
       THEN /\ SetRegistry(close_each(Registry, idle_sessions(Registry), raising))
            /\ UNCHANGED cleanup_task
       ELSE /\ cleanup_task' = "done"
            /\ UNCHANGED <<sessions, locks, nextTerm, terms>>
    /\ ret' = Ret("cleanup", "-", FALSE, "None")
    /\ UNCHANGED <<calls, hubVars, now, running, bridgeVars, llmVars>>

\* Time passes.
Advance ==
    /\ now < MaxTime
    /\ now' = now + 1
    /\ UNCHANGED <<registryVars, hubVars, running, cleanup_task, bridgeVars, llmVars, ret>>

\* ---------------------------------------------- TerminalWebSocketHandler
NoJob == [kind |-> "none", handler |-> "-", data |-> <<>>, idx |-> 0,
          client |-> "-", todo |-> {}]

\* The coroutine _handle_terminal_output(data) of one callback invocation
OutputJob(h, data, idx) ==
    [kind |-> "output", handler |-> h, data |-> data, idx |-> idx,
     client |-> "-", todo |-> {}]

\* add_websocket at "async with self.buffer_lock" (the backlog is read later,
\* once the lock is held)
PrimeJob(h, w) ==
    [kind |-> "prime", handler |-> h, data |-> <<>>, idx |-> 0,
     client |-> w, todo |-> {}]

\* "lambda data: asyncio.create_task(self._handle_terminal_output(data))":
\* a new function object at every evaluation, bound to the handler of h
Lambda(n, h) == [id |-> n, handler |-> h]

\* _handle_terminal_output: "self.output_buffer += data" and the size limit
append_output(buf, data) ==
    LET b == buf \o data IN
    IF Len(b) > BufferLimit THEN LastN(b, BufferLimit) ELSE b

\* asyncio.Lock.acquire without suspending: the lock is free and nobody waits
LockFree(L) == L.holder.kind = "none" /\ L.waiters = <<>>

\* _send_output: the frame built from the data of the job holding the lock
Frame(job) ==
    [kind |-> IF job.kind = "prime" THEN "prime" ELSE "chunk",
     data |-> job.data, idx |-> job.idx]

\* The recipients _send_output iterates over: "list(self.websockets)"
send_targets(ws, job) == ws

\* Job `job` has just acquired buffer_lock of handler h: the code up to the
\* first "await websocket.send". With nobody to send to, the lock is released
\* at once.
Acquired(h, job) ==
    LET buf == IF job.kind = "output"
               THEN append_output(output_buffer[h], job.data)
               ELSE output_buffer[h]
        held == [job EXCEPT !.data = IF job.kind = "prime" THEN buf ELSE @,
                            !.todo = send_targets(websockets[h], job)]
    IN /\ output_buffer' = [output_buffer EXCEPT ![h] = buf]
       /\ IF held.todo = {}
          THEN /\ buffer_lock' = [buffer_lock EXCEPT ![h].holder = NoJob,
                                         ![h].waiters = IF LockFree(buffer_lock[h])
                                                        THEN <<>> ELSE Tail(@)]
               /\ conn' = IF job.kind = "prime"
                          THEN [conn EXCEPT ![job.client].pc = "bound"]
                          ELSE conn
          ELSE /\ buffer_lock' = [buffer_lock EXCEPT ![h].holder = held,
                                         ![h].waiters = IF LockFree(buffer_lock[h])
                                                        THEN <<>> ELSE Tail(@)]
               /\ UNCHANGED conn

\* No chunk of session id s is on its way to the backlog of handler s.
Quiet(s) ==
    /\ \A i \in 1..Len(ready) : ready[i].handler # s
    /\ LockFree(buffer_lock[s])

\* A callback that raises when it is called, registered by some caller of
\* SessionManager.register_output_callback
Raiser == [id |-> 0, handler |-> "raises"]

\* C39 mutant: a callback that raises ends the "for" over the callbacks
publish_abort(cbs, data, idx) ==
    LET first == IF \E i \in 1..Len(cbs) : cbs[i] = Raiser
                 THEN CHOOSE i \in 1..Len(cbs) :
                          cbs[i] = Raiser /\ \A j \in 1..(i - 1) : cbs[j] # Raiser
                 ELSE Len(cbs) + 1
    IN [i \in 1..(first - 1) |-> OutputJob(cbs[i].handler, data, idx)]

\* TerminalSession._read_loop: one read that returned data; every registered
\* callback is called in list order, inside "try ... except Exception": a
\* handler's lambda creates one task, a callback that raises is logged and
\* the "for" goes on.
publish(cbs, data, idx) ==
    LET done == SelectSeq(cbs, LAMBDA cb : cb # Raiser) IN
    [i \in 1..Len(done) |-> OutputJob(done[i].handler, data, idx)]

\* One turn of the read loop whose read returned data, from the test of
\* the "while" to the sleep, when nothing else runs in between.
PumpRead(t, data) ==
    /\ terms[t].active /\ terms[t].pty = "alive" /\ terms[t].read_task = "running"
    /\ terms' = [terms EXCEPT ![t] = read_loop_result(read_loop_test(@), "data")]
    /\ LET s == terms[t].session_id IN
         /\ Len(pubLog[s]) < MaxPublish
         /\ pubLog' = [pubLog EXCEPT ![s] =
                          Append(@, [data |-> data,
                                     subs |-> Cardinality(websockets[s])])]
         /\ ready' = ready \o publish(terms[t].output_callbacks, data,
                                      Len(pubLog[s]) + 1)
    /\ UNCHANGED <<sessions, locks, nextTerm, calls, handlers, websockets,
                   output_buffer, buffer_lock, nextCb, conn, sent, attachAt, ret,
                   lifeVars, bridgeVars, llmVars>>

\* The read loop reaches the test of its "while" and, if it passes, hands
\* pty.read to the executor.
PumpSubmit(t) ==
    /\ terms[t].read_task = "running"
    /\ terms' = [terms EXCEPT ![t] = read_loop_test(@)]
    /\ UNCHANGED <<sessions, locks, nextTerm, calls, hubVars, ret, lifeVars,
                   bridgeVars, llmVars>>

\* The executor's pty.read is over and the read loop goes on with its
\* outcome; data is what it read when the outcome is "data".
PumpDeliver(t, outcome, data) ==
    /\ terms[t].read_task = "reading"
    /\ terms' = [terms EXCEPT ![t] = read_loop_result(@, outcome)]
    /\ LET s == terms[t].session_id IN
         IF outcome = "data"
         THEN /\ Len(pubLog[s]) < MaxPublish
              /\ pubLog' = [pubLog EXCEPT ![s] =
                               Append(@, [data |-> data,
                                          subs |-> Cardinality(websockets[s])])]
              /\ ready' = ready \o publish(terms[t].output_callbacks, data,
                                           Len(pubLog[s]) + 1)
         ELSE UNCHANGED <<pubLog, ready>>
    /\ UNCHANGED <<sessions, locks, nextTerm, calls, handlers, websockets,
                   output_buffer, buffer_lock, nextCb, conn, sent, attachAt, ret,
                   lifeVars, bridgeVars, llmVars>>

\* The event loop starts the oldest created task: _handle_terminal_output
\* runs up to "async with self.buffer_lock", and on if the lock is free.
TaskStart ==
    /\ ready # <<>>
    /\ LET job == Head(ready)
           h == job.handler
       IN IF LockFree(buffer_lock[h])
          THEN Acquired(h, job)
          ELSE /\ buffer_lock' = [buffer_lock EXCEPT ![h].waiters = Append(@, job)]
               /\ UNCHANGED <<output_buffer, conn>>
    /\ ready' = Tail(ready)
    /\ UNCHANGED <<registryVars, handlers, websockets, nextCb, sent, pubLog,
                   attachAt, ret, lifeVars, bridgeVars, llmVars>>

\* asyncio.Lock.release woke the first waiter; it now takes the lock.
Wake(h) ==
    /\ buffer_lock[h].holder.kind = "none"
    /\ buffer_lock[h].waiters # <<>>
    /\ Acquired(h, Head(buffer_lock[h].waiters))
    /\ UNCHANGED <<registryVars, handlers, websockets, ready, nextCb, sent,
                   pubLog, attachAt, ret, lifeVars, bridgeVars, llmVars>>

\* C32 mutant: a connection whose message loop has ended still takes frames
send_fails_peer(w) == inbound[w].peer = "closed"

\* "await websocket.send(message)" raises ConnectionClosed: the connection
\* is closed (handle_message raises nothing, so the message loop of
\* handle_connection ends only with the connection), or the peer is gone
send_fails(w) == conn[w].pc = "closed" \/ inbound[w].peer = "closed"

\* _send_output: one "await websocket.send(message)" of the job holding the
\* lock; a closed connection raises ConnectionClosed, which is swallowed.
\* After the last one the lock is released and add_websocket returns.
SendStep(h, w) ==
    /\ buffer_lock[h].holder.kind # "none"
    /\ w \in buffer_lock[h].holder.todo
    /\ LET job == buffer_lock[h].holder
           rest == job.todo \ {w}
       IN /\ sent' = IF send_fails(w) THEN sent
                     ELSE [sent EXCEPT ![w] = Append(@, Frame(job))]
          /\ buffer_lock' = [buffer_lock EXCEPT ![h].holder =
                                 IF rest = {} THEN NoJob
                                 ELSE [job EXCEPT !.todo = rest]]
          /\ conn' = IF rest = {} /\ job.kind = "prime"
                     THEN [conn EXCEPT ![job.client].pc = "bound"]
                     ELSE conn
    /\ UNCHANGED <<registryVars, handlers, websockets, output_buffer, ready,
                   nextCb, pubLog, attachAt, ret, lifeVars, bridgeVars, llmVars>>

\* TerminalWebSocketServer.handle_connection for path /ws/s, through
\* add_websocket up to its first suspension point.
Connect(w, s, outcome) ==
    /\ conn[w].pc = "new"
    /\ CanConstruct(s)
    /\ LET found == get_session(sessions, s) # None
           c == create_session(Registry, s, outcome)
           R == IF found THEN Registry ELSE c.reg
       IN IF ~found /\ c.result = "None"
          THEN \* close(1011, "Failed to create session")
               /\ SetRegistry(R)
               /\ ret' = Ret("create_session", s, c.present, c.result)
               /\ conn' = [conn EXCEPT ![w] = [pc |-> "closed", sid |-> s,
                                               code |-> 1011]]
               /\ UNCHANGED <<handlers, websockets, output_buffer, buffer_lock,
                              nextCb, attachAt>>
          ELSE LET t == get_session(R.sessions, s)
                   cb == Lambda(nextCb, s)
               IN /\ ret' = IF found THEN ret
                            ELSE Ret("create_session", s, c.present, c.result)
                  /\ handlers' = handlers \cup {s}
                  /\ websockets' = [websockets EXCEPT ![s] = @ \cup {w}]
                  /\ nextCb' = nextCb + 1
                  /\ SetRegistry([R EXCEPT !.terms[t].output_callbacks =
                                      register_output_callback(@, cb)])
                  /\ attachAt' = [attachAt EXCEPT ![w] =
                                      [pos |-> Len(pubLog[s]), quiet |-> Quiet(s),
                                       backlog |-> output_buffer[s], term |-> t]]
                  /\ IF output_buffer[s] # <<>>
                     THEN IF LockFree(buffer_lock[s])
                          THEN /\ buffer_lock' = [buffer_lock EXCEPT ![s].holder =
                                     [PrimeJob(s, w) EXCEPT
                                        !.data = output_buffer[s],
                                        !.todo = send_targets(websockets'[s],
                                                              PrimeJob(s, w))]]
                               /\ conn' = [conn EXCEPT ![w] =
                                              [pc |-> "adding", sid |-> s,
                                               code |-> 0]]
                          ELSE /\ buffer_lock' = [buffer_lock EXCEPT ![s].waiters =
                                                     Append(@, PrimeJob(s, w))]
                               /\ conn' = [conn EXCEPT ![w] =
                                              [pc |-> "adding", sid |-> s,
                                               code |-> 0]]
                     ELSE /\ conn' = [conn EXCEPT ![w] = [pc |-> "bound", sid |-> s,
                                                          code |-> 0]]
                          /\ UNCHANGED buffer_lock
                  /\ UNCHANGED output_buffer
    /\ UNCHANGED <<calls, ready, sent, pubLog, lifeVars, bridgeVars, llmVars>>

\* C15 mutant: the set is cleared
remove_all(ws, w) == {}

\* C34 mutant: the client stays in the set
remove_kept(ws, w) == ws

\* remove_websocket: "if websocket in self.websockets: ....remove(websocket)"
remove(ws, w) == ws \ {w}

\* The message loop of handle_connection has ended (the peer closed, or the
\* connection failed) while it waited for a message; its "finally" runs
\* TerminalWebSocketHandler.remove_websocket.
Disconnect(w) ==
    /\ conn[w].pc = "bound"
    /\ inbound[w].pc = "idle"
    /\ LET s == conn[w].sid
           left == remove(websockets[s], w)
           t == get_session(sessions, s)
       IN /\ websockets' = [websockets EXCEPT ![s] = left]
          /\ IF left = {}
             THEN /\ nextCb' = nextCb + 1
                  /\ terms' = IF t = None THEN terms
                              ELSE [terms EXCEPT ![t].output_callbacks =
                                      unregister_output_callback(@, Lambda(nextCb, s))]
             ELSE UNCHANGED <<nextCb, terms>>
    /\ conn' = [conn EXCEPT ![w].pc = "closed"]
    /\ UNCHANGED <<sessions, locks, nextTerm, calls, handlers, output_buffer,
                   buffer_lock, ready, sent, pubLog, attachAt, ret, lifeVars,
                   bridgeVars, llmVars>>

\* ------------------------------------------- the bridge's inbound side
\* A path is the sequence of its characters.
Paths ==
    { <<"/", "w", "s", "/", "X">>,
      <<"/", "w", "s", "/", "a", "b", "c", "-", "1", "2", "3">>,
      <<"/", "w", "s", "/">>,
      <<"/", "w", "s", "/", "a", "b", "c", "/", "d", "e", "f">>,
      <<"/", "w", "s", "/", "X", "\n">>,
      <<"/", "w", "s", "/", "X", "_">>,
      <<"/", "w", "s">>,
      <<"/", "a", "p", "i", "/", "X">>,
      <<"x", "/", "w", "s", "/", "X">> }

\* The class [a-zA-Z0-9-]
IdChars ==
  { "a", "b", "c", "d", "e", "f", "g", "h", "i", "j", "k", "l", "m",
    "n", "o", "p", "q", "r", "s", "t", "u", "v", "w", "x", "y", "z",
    "A", "B", "C", "D", "E", "F", "G", "H", "I", "J", "K", "L", "M",
    "N", "O", "P", "Q", "R", "S", "T", "U", "V", "W", "X", "Y", "Z",
    "0", "1", "2", "3", "4", "5", "6", "7", "8", "9", "-" }

\* C19 mutant: whatever follows the first four characters is the id
extract_unchecked(path) == SubSeq(path, 5, Len(path))

\* _extract_session_id: re.match(r"^/ws/([a-zA-Z0-9-]+)$", path), group 1 or
\* <<>> for None. Python's "$" matches at the end of the string and also
\* before a newline that ends it.
extract_session_id(path) ==
    LET n == Len(path)
        m == IF n > 0 /\ path[n] = "\n" THEN n - 1 ELSE n
    IN IF /\ m >= 5
          /\ SubSeq(path, 1, 4) = <<"/", "w", "s", "/">>
          /\ \A i \in 5..m : path[i] \in IdChars
       THEN SubSeq(path, 5, m)
       ELSE <<>>

\* TerminalWebSocketServer.handle_connection, from the path on. The ids of
\* SessionIds are one character long.
ConnectPath(w, path, outcome) ==
    LET session_id == extract_session_id(path) IN
    IF session_id = <<>>
    THEN \* close(1008, "Invalid path")
         /\ conn[w].pc = "new"
         /\ conn' = [conn EXCEPT ![w] = [pc |-> "closed", sid |-> "-",
                                         code |-> 1008]]
         /\ UNCHANGED <<registryVars, handlers, websockets, output_buffer,
                        buffer_lock, ready, nextCb, sent, pubLog, attachAt, ret,
                        lifeVars, bridgeVars, llmVars>>
    ELSE \E s \in SessionIds : <<s>> = session_id /\ Connect(w, s, outcome)

\* An inbound text frame: json is what json.loads makes of it ("invalid":
\* JSONDecodeError, "array": valid JSON that is no object), the rest are the
\* fields handle_message reads with data.get.
Msg(json, type, data, size, command, analysis) ==
    [json |-> json, type |-> type, data |-> data, size |-> size,
     command |-> command, is_output_analysis |-> analysis]

Frames ==
    { Msg("object", "input", "x", DefaultSize, <<>>, FALSE),
      Msg("object", "resize", "", <<40, 132>>, <<>>, FALSE),
      Msg("object", "llm_assist", "", DefaultSize, <<"?", "l", "s">>, FALSE),
      Msg("object", "llm_assist", "", DefaultSize, <<"?", " ">>, FALSE),
      Msg("object", "ping", "", DefaultSize, <<>>, FALSE),
      Msg("invalid", "", "", DefaultSize, <<>>, FALSE),
      Msg("array", "", "", DefaultSize, <<>>, FALSE) }

\* str.strip() for blanks
RECURSIVE lstrip(_)
lstrip(cs) == IF cs # <<>> /\ Head(cs) = " " THEN lstrip(Tail(cs)) ELSE cs

RECURSIVE rstrip(_)
rstrip(cs) ==
    IF cs # <<>> /\ cs[Len(cs)] = " " THEN rstrip(SubSeq(cs, 1, Len(cs) - 1))
    ELSE cs

strip(cs) == rstrip(lstrip(cs))

\* _handle_llm_request: "clean_command = command.strip()" and the "?" prefix
clean_command(command) ==
    LET c == strip(command) IN
    IF c # <<>> /\ Head(c) = "?" THEN strip(Tail(c)) ELSE c

\* C20 mutant: what is not recognised is written to the terminal
dispatch_lenient(f) ==
    IF f.json = "object" /\ f.type \in {"resize", "llm_assist"} THEN f.type
    ELSE "input"

\* handle_message: the branch a frame takes. A frame that is no JSON raises
\* JSONDecodeError, JSON that is no object raises at data.get; both are
\* caught and logged, as is an unknown type.
dispatch(f) ==
    IF f.json = "invalid" THEN "JSONDecodeError"
    ELSE IF f.json # "object" THEN "Exception"
    ELSE IF f.type \in {"input", "resize", "llm_assist"} THEN f.type
    ELSE "unknown"

\* An llm_response frame; loading is "true", "false" or "absent" (no key)
llm_response(content, loading, error) ==
    [kind |-> "llm_response", data |-> content, idx |-> 0,
     loading |-> loading, error |-> error]

loading_response == llm_response("Analyzing...", "true", FALSE)

\* C17 mutant: the response is sent as one more loading frame
final_response_loading(content) == llm_response(content, "true", FALSE)

\* _handle_llm_request: "response = {... "content": llm_response,
\* "loading": False}"
final_response(content) == llm_response(content, "false", FALSE)

\* LLMAdapter._request_llm_response: HTTP first, then WebSocket, then the
\* text that says the service cannot be reached. http and ws are "ok" or
\* "fail" (an error status, an exception, a timeout).
request_llm_response(http, ws) ==
    IF http = "ok" THEN "text"
    ELSE IF ws = "ok" THEN "text"
    ELSE "unable to connect"

\* LLMAdapter.analyze_command / analyze_output: what the caller gets
analyze(http, ws) == request_llm_response(http, ws)

\* "await websocket.send(...)" of the frames fs in turn: the frames the
\* client has been sent afterwards. On a closed connection send raises and
\* _handle_llm_request's handlers swallow it.
send(w, fs) == IF inbound[w].peer = "open" THEN sent[w] \o fs ELSE sent[w]

\* A message of a conversation context. seq tells the messages of one id
\* apart: the n-th message added for the id has seq n, the system message 0.
Message(role, content, seq) == [role |-> role, content |-> content, seq |-> seq]

\* LLMAdapter.__init__: "self._session_contexts = {}"; an id that is no key
\* has the empty list here
NoContexts == [s \in ContextIds |-> <<>>]

\* LLMAdapter._get_session_context: the list of the id, created with the
\* system message if the id is no key
get_session_context(ctxs, s) ==
    IF ctxs[s] = <<>> THEN <<Message("system", "system_prompt", 0)>> ELSE ctxs[s]

\* C26 mutant: the context is never trimmed
add_message_untrimmed(ctxs, s, m) ==
    [ctxs EXCEPT ![s] = Append(get_session_context(ctxs, s), m)]

\* LLMAdapter.add_message: "context.append(...)", then "if len(context) > 11:
\* context = [context[0]] + context[-10:]"
add_message(ctxs, s, m) ==
    LET context == Append(get_session_context(ctxs, s), m) IN
    [ctxs EXCEPT ![s] = IF Len(context) > 11
                        THEN <<context[1]>> \o LastN(context, 10)
                        ELSE context]

\* analyze_command / analyze_output: the prompt made of the command
prompt(f) == IF f.is_output_analysis THEN "explain the output" ELSE "explain this command"

RECURSIVE Sum(_, _)
Sum(f, S) ==
    IF S = {} THEN 0
    ELSE LET x == CHOOSE y \in S : TRUE IN f[x] + Sum(f, S \ {x})

\* The peer of a connection sends a text frame.
Arrive(w, f) ==
    /\ conn[w].pc = "bound"
    /\ inbound[w].peer = "open"
    /\ Sum([v \in Clients |-> inbound[v].frames], Clients) < MaxFrames
    /\ inbox' = [inbox EXCEPT ![w] = Append(@, f)]
    /\ inbound' = [inbound EXCEPT ![w].frames = @ + 1]
    /\ UNCHANGED <<registryVars, hubVars, ret, lifeVars, llmVars>>

\* "async for message in websocket: await handler.handle_message(...)": the
\* loop takes the next frame and handle_message runs up to its return or,
\* for llm_assist, up to the await of the analyzer.
HandleMessage(w, raises) ==
    /\ conn[w].pc = "bound"
    /\ inbound[w].pc = "idle"
    /\ inbox[w] # <<>>
    /\ LET f == Head(inbox[w])
           s == conn[w].sid
           branch == dispatch(f)
           logged == [inbound EXCEPT ![w].log = Append(@, branch)]
       IN /\ inbox' = [inbox EXCEPT ![w] = Tail(@)]
          /\ IF branch = "input"
             THEN LET c == write_to_session(Registry, s, f.data, raises) IN
                  /\ SetRegistry(c.reg)
                  /\ inbound' = logged
                  /\ UNCHANGED sent
             ELSE IF branch = "resize"
             THEN LET c == resize_session(Registry, s, f.size, raises) IN
                  /\ SetRegistry(c.reg)
                  /\ inbound' = logged
                  /\ UNCHANGED sent
             ELSE IF branch = "llm_assist"
             THEN /\ UNCHANGED <<sessions, locks, nextTerm, terms>>
                  /\ IF get_session(sessions, s) = None
                     THEN /\ sent' = [sent EXCEPT ![w] =
                                 send(w, <<llm_response("session not found",
                                                        "absent", TRUE)>>)]
                          /\ inbound' = logged
                     ELSE IF inbound[w].peer # "open"
                     THEN /\ UNCHANGED sent
                          /\ inbound' = logged
                     ELSE IF ~f.is_output_analysis /\ clean_command(f.command) = <<>>
                     THEN /\ sent' = [sent EXCEPT ![w] =
                                 send(w, <<loading_response,
                                           final_response("provide a command")>>)]
                          /\ inbound' = [logged EXCEPT ![w].llm = @ + 1]
                     ELSE /\ sent' = [sent EXCEPT ![w] =
                                 send(w, <<loading_response>>)]
                          /\ inbound' = [logged EXCEPT ![w].llm = @ + 1,
                                                       ![w].pc = "analyzing"]
             ELSE /\ inbound' = logged
                  /\ UNCHANGED <<sessions, locks, nextTerm, terms, sent>>
          \* "llm_adapter = LLMAdapter()" and, in analyze_command or
          \* analyze_output, "self.add_message(session_id, prompt)"
          /\ IF /\ branch = "llm_assist"
                /\ get_session(sessions, s) # None
                /\ inbound[w].peer = "open"
                /\ (f.is_output_analysis \/ clean_command(f.command) # <<>>)
             THEN LET m == Message("user", prompt(f), Len(added[s]) + 1) IN
                  /\ contexts' = [contexts EXCEPT ![w] = add_message(NoContexts, s, m)]
                  /\ added' = [added EXCEPT ![s] = Append(@, m)]
             ELSE UNCHANGED llmVars
    /\ UNCHANGED <<calls, handlers, websockets, output_buffer, buffer_lock,
                   ready, nextCb, conn, pubLog, attachAt, ret, lifeVars>>

\* The analyzer call of _handle_llm_request returns and the response is sent.
\* The response was added to the adapter's context by then, and the adapter,
\* a local of _handle_llm_request, is gone when the function returns.
LlmReturn(w, http, ws) ==
    /\ inbound[w].pc = "analyzing"
    /\ sent' = [sent EXCEPT ![w] = send(w, <<final_response(analyze(http, ws))>>)]
    /\ inbound' = [inbound EXCEPT ![w].pc = "idle"]
    /\ contexts' = [contexts EXCEPT ![w] = NoContexts]
    /\ added' = [added EXCEPT ![conn[w].sid] =
                    Append(@, Message("assistant", analyze(http, ws), Len(@) + 1))]
    /\ UNCHANGED <<registryVars, handlers, websockets, output_buffer,
                   buffer_lock, ready, nextCb, conn, pubLog, attachAt, ret,
                   lifeVars, inbox>>

\* A caller of LLMAdapter.add_message on an adapter it keeps
AddMessage(s, role) ==
    /\ Sum([x \in ContextIds |-> Len(added[x])], ContextIds) < MaxAdds
    /\ LET m == Message(role, "text", Len(added[s]) + 1) IN
         /\ contexts' = [contexts EXCEPT !["direct"] = add_message(@, s, m)]
         /\ added' = [added EXCEPT ![s] = Append(@, m)]
    /\ UNCHANGED <<registryVars, hubVars, ret, lifeVars, bridgeVars>>

\* A caller of SessionManager.register_output_callback(s, cb) with a
\* callback that raises
RegisterRaiser(s) ==
    /\ get_session(sessions, s) # None
    /\ LET t == get_session(sessions, s) IN
         /\ Len(SelectSeq(terms[t].output_callbacks, LAMBDA cb : cb = Raiser))
                < MaxRaisers
         /\ terms' = [terms EXCEPT ![t].output_callbacks =
                          register_output_callback(@, Raiser)]
    /\ UNCHANGED <<sessions, locks, nextTerm, calls, hubVars, ret, lifeVars,
                   bridgeVars, llmVars>>

\* The peer goes away while handle_message awaits the analyzer.
PeerClose(w) ==
    /\ conn[w].pc = "bound"
    /\ inbound[w].pc = "analyzing"
    /\ inbound[w].peer = "open"
    /\ inbound' = [inbound EXCEPT ![w].peer = "closed"]
    /\ UNCHANGED <<registryVars, hubVars, ret, lifeVars, inbox, llmVars>>

\* The peer of a connection goes away, or the transport fails, while the
\* message loop waits for a frame; from then on websocket.send raises.
PeerDrop(w) ==
    /\ conn[w].pc \in {"adding", "bound"}
    /\ inbound[w].pc = "idle"
    /\ inbound[w].peer = "open"
    /\ inbound' = [inbound EXCEPT ![w].peer = "closed"]
    /\ UNCHANGED <<registryVars, hubVars, ret, lifeVars, inbox, llmVars>>

\* ------------------------------------- a TerminalSession used directly
StartContexts == {"loop", "noloop", "executor"}

Bool(b) == IF b THEN "True" ELSE "False"

\* TerminalSession(session_id): a caller constructs the object
TermNew(s) ==
    /\ nextTerm <= MaxDirect
    /\ terms' = [terms EXCEPT ![nextTerm] = Terminal(s)]
    /\ nextTerm' = nextTerm + 1
    /\ ret' = Ret("new", s, FALSE, "None")
    /\ UNCHANGED <<sessions, locks, calls, hubVars, lifeVars, bridgeVars, llmVars>>

\* A caller of TerminalSession.start(): a coroutine of the server ("loop"),
\* the create-session command of the CLI, which has no event loop running
\* ("noloop"), or a worker thread ("executor")
TermStart(t, ctx, outcome) ==
    /\ t < nextTerm
    /\ LET r == start(terms[t], ctx, outcome) IN
         /\ terms' = [terms EXCEPT ![t] = r.term]
         /\ ret' = Ret("start", terms[t].session_id, terms[t].active, Bool(r.result))
    /\ UNCHANGED <<sessions, locks, nextTerm, calls, hubVars, lifeVars, bridgeVars, llmVars>>

\* A caller of TerminalSession.stop()
TermStop(t, raises) ==
    /\ t < nextTerm
    /\ terms[t].terminated < MaxKills
    /\ LET r == stop(terms[t], raises) IN
         /\ terms' = [terms EXCEPT ![t] = r.term]
         /\ ret' = Ret("stop", terms[t].session_id, terms[t].active, Bool(r.result))
    /\ UNCHANGED <<sessions, locks, nextTerm, calls, hubVars, lifeVars, bridgeVars, llmVars>>

\* A caller of TerminalSession.write(data)
TermWrite(t, data, raises) ==
    /\ t < nextTerm
    /\ LET r == write(terms[t], data, raises) IN
         /\ terms' = [terms EXCEPT ![t] = r.term]
         /\ ret' = Ret("write", terms[t].session_id, terms[t].active, Bool(r.result))
    /\ UNCHANGED <<sessions, locks, nextTerm, calls, hubVars, lifeVars, bridgeVars, llmVars>>

\* A caller of TerminalSession.resize(rows, cols)
TermResize(t, size, raises) ==
    /\ t < nextTerm
    /\ LET r == resize(terms[t], size, raises) IN
         /\ terms' = [terms EXCEPT ![t] = r.term]
         /\ ret' = Ret("resize", terms[t].session_id, terms[t].active, Bool(r.result))
    /\ UNCHANGED <<sessions, locks, nextTerm, calls, hubVars, lifeVars, bridgeVars, llmVars>>

\* A caller of TerminalSession.read()
TermRead(t, outcome) ==
    /\ t < nextTerm
    /\ LET r == read(terms[t], outcome) IN
         /\ terms' = [terms EXCEPT ![t] = r.term]
         /\ ret' = Ret("read", terms[t].session_id, terms[t].active, r.result)
    /\ UNCHANGED <<sessions, locks, nextTerm, calls, hubVars, lifeVars, bridgeVars, llmVars>>

\* The child process exits on its own: pty.isalive() is false from now on.
ChildExit(t) ==
    /\ terms[t].pty = "alive"
    /\ terms' = [terms EXCEPT ![t].pty = "dead"]
    /\ UNCHANGED <<sessions, locks, nextTerm, calls, hubVars, lifeVars, bridgeVars, llmVars,
                   ret>>

\* ------------------------------------------------------------ the system
Init ==
    /\ sessions = [s \in RegistryIds |-> None]
    /\ locks = {}
    /\ nextTerm = 1
    /\ now = 0
    /\ terms = [t \in TermIds |-> Terminal("-")]
    /\ calls = [c \in AsyncCalls |->
                  [pc |-> "idle", sid |-> "-", term |-> None, success |-> FALSE,
                   overlapped |-> FALSE]]
    /\ handlers = {}
    /\ websockets = [s \in SessionIds |-> {}]
    /\ output_buffer = [s \in SessionIds |-> <<>>]
    /\ buffer_lock = [s \in SessionIds |-> [holder |-> NoJob, waiters |-> <<>>]]
    /\ ready = <<>>
    /\ nextCb = 1
    /\ conn = [w \in Clients |-> [pc |-> "new", sid |-> "-", code |-> 0]]
    /\ sent = [w \in Clients |-> <<>>]
    /\ pubLog = [s \in SessionIds |-> <<>>]
    /\ attachAt = [w \in Clients |-> [pos |-> 0, quiet |-> TRUE, backlog |-> <<>>,
                                  term |-> None]]
    /\ ret = Ret("none", "-", FALSE, "-")
    /\ running = FALSE
    /\ cleanup_task = "none"
    /\ inbox = [w \in Clients |-> <<>>]
    /\ inbound = [w \in Clients |-> [pc |-> "idle", peer |-> "open", frames |-> 0,
                                   llm |-> 0, log |-> <<>>]]
    /\ contexts = [a \in Adapters |-> NoContexts]
    /\ added = [s \in ContextIds |-> <<>>]

\* The registry's callers
RegistryNext ==
    \/ \E s \in SessionIds, o \in StartOutcomes : CreateSession(s, o)
    \/ \E s \in SessionIds, raises \in BOOLEAN : CloseSession(s, raises)

\* create_session_async and its worker thread
AsyncNext ==
    \/ \E c \in AsyncCalls, s \in SessionIds : CreateAsyncBegin(c, s)
    \/ \E c \in AsyncCalls, o \in StartOutcomes : CreateAsyncExec(c, o)
    \/ \E c \in AsyncCalls : CreateAsyncFinish(c)

\* WebSocket connections coming and going
ConnNext ==
    \/ \E w \in Clients, s \in SessionIds, o \in StartOutcomes : Connect(w, s, o)
    \/ \E w \in Clients : Disconnect(w)

\* The pump and the output tasks it creates
PumpNext ==
    \/ \E t \in TermIds, d \in ChunkData : PumpRead(t, d)
    \/ TaskStart
    \/ \E h \in SessionIds : Wake(h)
    \/ \E h \in SessionIds, w \in Clients : SendStep(h, w)

\* Terminal I/O through the registry
IoNext ==
    \/ \E s \in SessionIds, d \in InputData, raises \in BOOLEAN :
           WriteToSession(s, d, raises)
    \/ \E s \in SessionIds, z \in WinSizes, raises \in BOOLEAN :
           ResizeSession(s, z, raises)
    \/ \E s \in SessionIds, o \in ReadOutcomes : ReadFromSession(s, o)

\* The read loop, one suspension point at a time
LoopNext ==
    \/ \E t \in TermIds : PumpSubmit(t)
    \/ \E t \in TermIds, o \in ReadOutcomes, d \in ChunkData : PumpDeliver(t, o, d)

\* The registry's own life, its reaper and the clock
ManagerNext ==
    \/ ManagerStart
    \/ \E raising \in SUBSET SessionIds : ManagerStop(raising)
    \/ \E raising \in SUBSET SessionIds : ReaperTick(raising)
    \/ Advance

\* Connections by path
PathNext ==
    \E w \in Clients, p \in Paths, o \in StartOutcomes : ConnectPath(w, p, o)

\* The frames of a connection and the analyzer
BridgeNext ==
    \/ \E w \in Clients, f \in Frames : Arrive(w, f)
    \/ \E w \in Clients, raises \in BOOLEAN : HandleMessage(w, raises)
    \/ \E w \in Clients, http \in {"ok", "fail"}, ws \in {"ok", "fail"} :
           LlmReturn(w, http, ws)
    \/ \E w \in Clients : PeerClose(w)

\* The output tasks, one suspension point at a time
TaskNext ==
    \/ TaskStart
    \/ \E h \in SessionIds : Wake(h)
    \/ \E h \in SessionIds, w \in Clients : SendStep(h, w)

\* Callbacks registered from outside the handlers
CallbackNext == \E s \in SessionIds : RegisterRaiser(s)

\* Connections that are lost
DropNext == \E w \in Clients : PeerDrop(w)

\* The registry with two ids, listed and looked up
ListNext ==
    \/ \E s \in RegistryIds, o \in StartOutcomes : CreateSession(s, o)
    \/ \E s \in RegistryIds, raises \in BOOLEAN : CloseSession(s, raises)
    \/ \E s \in RegistryIds, o \in ReadOutcomes : ReadFromSession(s, o)
    \/ ListSessions
    \/ \E s \in RegistryIds : GetSession(s)

\* The reaper over a registry of two ids, one of which has a client; the
\* sessions are ones whose start() succeeded
ReaperNext ==
    \/ \E s \in RegistryIds : CreateSession(s, "ok")
    \/ \E s \in RegistryIds, d \in InputData, raises \in BOOLEAN :
           WriteToSession(s, d, raises)
    \/ \E s \in SessionIds : Connect("w1", s, "ok")
    \/ ManagerStart
    \/ \E raising \in SUBSET RegistryIds : ReaperTick(raising)
    \/ Advance

\* An LLMAdapter and its callers
ContextNext == \E s \in ContextIds, role \in Roles : AddMessage(s, role)

\* One TerminalSession object and its callers
TermNext ==
    \/ \E s \in SessionIds : TermNew(s)
    \/ \E t \in TermIds, ctx \in StartContexts, o \in StartOutcomes :
           TermStart(t, ctx, o)
    \/ \E t \in TermIds, raises \in BOOLEAN : TermStop(t, raises)
    \/ \E t \in TermIds, d \in InputData, raises \in BOOLEAN : TermWrite(t, d, raises)
    \/ \E t \in TermIds, z \in WinSizes, raises \in BOOLEAN : TermResize(t, z, raises)
    \/ \E t \in TermIds, o \in ReadOutcomes : TermRead(t, o)
    \/ \E t \in TermIds : ChildExit(t)

Next == RegistryNext \/ AsyncNext \/ ConnNext \/ PumpNext \/ IoNext \/ LoopNext
            \/ ManagerNext \/ PathNext \/ BridgeNext \/ DropNext \/ TermNext
            \/ ContextNext \/ ListNext \/ ReaperNext \/ TaskNext \/ CallbackNext

Spec == Init /\ [][Next]_vars

\* The registry with every caller of create_session, the pump idle
SpecRegistry == Init /\ [][RegistryNext \/ AsyncNext \/ ConnNext]_vars

\* The fan-out of one session's output, without create_session_async
SpecHub == Init /\ [][RegistryNext \/ ConnNext \/ PumpNext]_vars

\* Terminals from creation to close: explicit close, reaper, shutdown, I/O
\* and the read loop
SpecLife == Init /\ [][RegistryNext \/ IoNext \/ ManagerNext]_vars

\* The same, where the cleanup task, once created and not cancelled, is run
\* by the event loop again and again
SpecLifeFair ==
    SpecLife /\ WF_vars(\E raising \in SUBSET SessionIds : ReaperTick(raising))

\* A Terminal's read loop next to the calls that use or end the Terminal,
\* with one client's callback on it
SpecLoop ==
    Init /\ [][\/ RegistryNext \/ IoNext \/ LoopNext
               \/ \E s \in SessionIds, o \in StartOutcomes : Connect("w1", s, o)]_vars

\* Connections to /ws/{id} with the frames they carry, up to the end of
\* the message loop
SpecBridge == Init /\ [][RegistryNext \/ ConnNext \/ BridgeNext]_vars

\* Connections by any path
SpecPaths ==
    Init /\ [][\/ RegistryNext \/ PathNext
               \/ \E w \in Clients : Disconnect(w)]_vars

\* The fan-out to clients whose connections may be lost; sessions are
\* created by the connections and stay
SpecSend == Init /\ [][ConnNext \/ PumpNext \/ DropNext]_vars

\* TerminalSession objects driven through their own methods, with the read
\* loop, the child that may exit and the clock
SpecTerminal == Init /\ [][TermNext \/ LoopNext \/ Advance]_vars

\* The registry as its listing and lookups show it
SpecList == Init /\ [][ListNext]_vars

\* The conversation contexts of one LLMAdapter
SpecContext == Init /\ [][ContextNext]_vars

\* The read loop of a session's Terminal next to the output tasks it
\* creates and their sends to the clients
SpecPump == Init /\ [][ConnNext \/ LoopNext \/ TaskNext]_vars

\* The reaper's ticks over two sessions that are written to at different
\* times
SpecReaper == Init /\ [][ReaperNext]_vars

\* The read loop publishing to a callback that raises and to the callback
\* of one client's handler
SpecCallback ==
    Init /\ [][\/ \E s \in SessionIds, o \in StartOutcomes : CreateSession(s, o)
               \/ \E s \in SessionIds, o \in StartOutcomes : Connect("w1", s, o)
               \/ LoopNext \/ TaskNext \/ CallbackNext]_vars

\* ---------------------------------------------------------------- claims
Attached(w) == conn[w].pc \in {"adding", "bound"}

\* The chunk frames sent to w that carry a chunk read after w was added
LiveFrames(w) ==
    SelectSeq(sent[w], LAMBDA f : f.kind = "chunk" /\ f.idx > attachAt[w].pos)

PrimePositions(w) == {i \in 1..Len(sent[w]) : sent[w][i].kind = "prime"}

\* The characters of the first n chunks the pump read for session id s
Published(s, n) == Flatten([i \in 1..n |-> pubLog[s][i].data])

\* C1: every chunk the pump reads after a client was added is sent to that
\* client exactly once and in the order read: while the Terminal the client
\* attached to is the registered one, the chunk frames it is sent are chunks
\* pos+1, pos+2, ... without a gap or a repeat, and all of them once no
\* output task is pending.
C1_ExactlyOnceInOrder ==
    \A w \in Clients :
        (Attached(w) /\ sessions[conn[w].sid] = attachAt[w].term) =>
            /\ \A i \in 1..Len(LiveFrames(w)) :
                   LiveFrames(w)[i].idx = attachAt[w].pos + i
            /\ (conn[w].pc = "bound" /\ Quiet(conn[w].sid)) =>
                   Len(LiveFrames(w)) = Len(pubLog[conn[w].sid]) - attachAt[w].pos

\* C2: a client receives the backlog at most once, before every chunk read
\* after it was added, and does receive it when the backlog was not empty;
\* a client that is already attached is not sent the backlog again.
C2_PrimeOnceAndFirst ==
    \A w \in Clients :
        /\ Cardinality(PrimePositions(w)) <= 1
        /\ \A i \in PrimePositions(w) : \A j \in 1..(i - 1) :
               ~(sent[w][j].kind = "chunk" /\ sent[w][j].idx > attachAt[w].pos)
        /\ (conn[w].pc = "bound" /\ attachAt[w].backlog # <<>>) =>
               PrimePositions(w) # {}

\* C3: once the last client of a session is removed, no callback of that
\* session's handler is left on the Terminal, and the Terminal registered
\* under an id has as many callbacks as the id has attached clients.
C3_UnsubscribeRemoves ==
    \A s \in SessionIds :
        sessions[s] # None =>
            LET cbs == terms[sessions[s]].output_callbacks IN
            /\ websockets[s] = {} =>
                   \A i \in 1..Len(cbs) : cbs[i].handler # s
            /\ Len(cbs) = Cardinality(websockets[s])

\* C4: the backlog of a session never exceeds the limit and, once no output
\* task is pending, is the last min(total, limit) characters the pump read
\* for the session.
C4_BacklogIsTail ==
    \A s \in SessionIds :
        /\ Len(output_buffer[s]) <= BufferLimit
        /\ Quiet(s) =>
               output_buffer[s] =
                   LastN(Published(s, Len(pubLog[s])), BufferLimit)

\* C5: when all the output read before a client was added was read with no
\* client attached, the first frame the client is sent is the prime, and it
\* holds that output (its last BufferLimit characters).
C5_UnattendedOutputPrimed ==
    \A w \in Clients :
        ( /\ conn[w].pc = "bound"
          /\ attachAt[w].quiet
          /\ attachAt[w].pos > 0
          /\ \A i \in 1..attachAt[w].pos : pubLog[conn[w].sid][i].subs = 0 )
        => /\ sent[w] # <<>>
           /\ sent[w][1].kind = "prime"
           /\ sent[w][1].data =
                  LastN(Published(conn[w].sid, attachAt[w].pos), BufferLimit)

\* C6: create_session on an id that is in the registry returns the id,
\* constructs and spawns nothing and leaves the registered Terminal in place.
C6_CreateExistingIsNoOp ==
    [][\A s \in SessionIds, o \in StartOutcomes :
          (CreateSession(s, o) /\ sessions[s] # None) =>
              /\ ret'.result = s
              /\ terms' = terms
              /\ nextTerm' = nextTerm
              /\ sessions' = sessions]_vars

\* C6 witness: create_session was called on a registered id and the id is
\* still registered.
C6_Witness ==
    /\ ret.op = "create_session" /\ ret.present
    /\ sessions[ret.sid] # None

\* The TerminalSession objects two calls of create_session_async built
Spawned(c) == calls[c].term # None /\ terms[calls[c].term].pty # "none"

\* C7: two create_session_async calls for one id that overlap spawn at most
\* one child between them, and once both have returned every active Terminal
\* they built is the one get_session returns.
C7_AsyncCreateSerialized ==
    \A c, d \in AsyncCalls :
        (c # d /\ calls[c].sid = calls[d].sid
              /\ calls[c].overlapped /\ calls[d].overlapped) =>
            /\ ~(Spawned(c) /\ Spawned(d))
            /\ (calls[c].pc = "done" /\ calls[d].pc = "done") =>
                   \A e \in {c, d} :
                       (calls[e].term # None /\ terms[calls[e].term].active) =>
                           get_session(sessions, calls[e].sid) = calls[e].term

\* C8: a create whose start() fails returns None and leaves the registry as
\* it was: create_session changes neither map, and when create_session_async
\* returns None the id has no session entry and no lock entry.
C8_FailedCreateLeavesNothing ==
    [][/\ \A s \in SessionIds, o \in StartOutcomes :
             (CreateSession(s, o) /\ sessions[s] = None /\ sessions'[s] = None) =>
                 /\ ret'.result = "None"
                 /\ sessions' = sessions /\ locks' = locks
       /\ \A c \in AsyncCalls :
             (CreateAsyncFinish(c) /\ ~calls[c].success) =>
                 /\ ret'.result = "None"
                 /\ sessions'[calls[c].sid] = None
                 /\ calls[c].sid \notin locks']_vars

\* C9: close_session returns True exactly when the id was registered, and
\* the id is not registered when it returns.
C9_CloseReturnsPresence ==
    [][\A s \in SessionIds, raises \in BOOLEAN :
          CloseSession(s, raises) =>
              /\ (ret'.result = "True") <=> (sessions[s] # None)
              /\ sessions'[s] = None]_vars

\* C10: close_session on an unregistered id returns False and changes
\* nothing, and DELETE answers 404; closing a registered id returns True, so
\* that closing an id twice returns True and then False.
C10_CloseUnknownIsFalse ==
    [][\A s \in SessionIds, raises \in BOOLEAN :
          CloseSession(s, raises) =>
              /\ sessions[s] = None =>
                     /\ ret'.result = "False"
                     /\ delete_status(ret'.result) = 404
                     /\ UNCHANGED <<sessions, locks, terms>>
              /\ sessions[s] # None =>
                     /\ ret'.result = "True"
                     /\ sessions'[s] = None]_vars

\* Terminal t was constructed and no id of the registry maps to it. Under
\* SpecLife only create_session constructs Terminals, and one whose start()
\* failed is inactive, so an active one of these has been registered.
Unregistered(t) == t < nextTerm /\ \A s \in SessionIds : sessions[s] # t

\* C11: whatever the order of close_session calls, reaper ticks and
\* SessionManager.stop, pty.terminate(force=True) is called at most once on
\* each Terminal, and every Terminal that has left the registry is inactive.
C11_ClosedOnce ==
    \A t \in TermIds :
        /\ terms[t].terminated <= 1
        /\ Unregistered(t) => ~terms[t].active

\* C12: on a registered Terminal whose active flag is false, write and
\* resize return False and leave the PTY as it was, and the read loop
\* submits no PTY read and calls no output callback.
C12_InactiveIsInert ==
    [][/\ \A s \in SessionIds, d \in InputData, raises \in BOOLEAN :
             ( /\ WriteToSession(s, d, raises)
               /\ sessions[s] # None /\ ~terms[sessions[s]].active )
             => (ret'.result = "False" /\ terms' = terms)
       /\ \A s \in SessionIds, z \in WinSizes, raises \in BOOLEAN :
             ( /\ ResizeSession(s, z, raises)
               /\ sessions[s] # None /\ ~terms[sessions[s]].active )
             => (ret'.result = "False" /\ terms' = terms)
       /\ \A t \in TermIds :
             (PumpSubmit(t) /\ ~terms[t].active)
             => terms'[t].read_task # "reading"
       /\ \A t \in TermIds, o \in ReadOutcomes, d \in ChunkData :
             (PumpDeliver(t, o, d) /\ ~terms[t].active) => ready' = ready]_vars

Registered(t) == \E s \in SessionIds : sessions[s] = t

\* now - last_activity > idle_timeout, the reaper's test
Idle(t) == now - terms[t].last_activity > idle_timeout

\* C13: a registered Terminal that has had no read and no write for more
\* than idle_timeout when a reaper tick begins is closed (inactive) and out
\* of the registry when the tick completes; and while the registry is
\* running, a registered Terminal that is idle is eventually closed, unless
\* it stops being idle.
C13_IdleReaped ==
    /\ [][\A raising \in SUBSET SessionIds, t \in TermIds :
             ( /\ ReaperTick(raising) /\ running
               /\ Registered(t)
               /\ now - terms[t].last_io > idle_timeout )
             => (~Registered(t)' /\ ~terms'[t].active)]_vars
    /\ \A t \in TermIds :
          (running /\ Registered(t) /\ Idle(t))
              ~> (~running \/ ~Registered(t) \/ ~Idle(t))

\* C14: whatever the state SessionManager.stop() is called in, when it
\* returns no cleanup task is left to run, the registry is empty, and every
\* Terminal that was registered is inactive with its child terminated.
C14_StopClosesAll ==
    [][\A raising \in SUBSET SessionIds :
          ManagerStop(raising) =>
              /\ cleanup_task' # "scheduled"
              /\ \A s \in SessionIds : sessions'[s] = None
              /\ \A t \in TermIds :
                     Registered(t) =>
                         (~terms'[t].active /\ terms'[t].pty # "alive")]_vars

\* The chunks read after w was added that w has been sent
Received(w) == {LiveFrames(w)[i].idx : i \in 1..Len(LiveFrames(w))}

\* C15: when a connection ends, the Terminal of its session stays in the
\* registry with its active flag and child as they were, only that client
\* leaves the handler's set, the callbacks serving the others stay on the
\* Terminal; and a client that stays attached is sent every chunk read after
\* it was added, whoever else has left.
C15_SessionOutlivesClient ==
    /\ [][\A w \in Clients :
             Disconnect(w) =>
                 LET s == conn[w].sid
                     t == sessions[s]
                 IN /\ sessions' = sessions
                    /\ websockets'[s] = websockets[s] \ {w}
                    /\ t # None =>
                          /\ terms'[t].active = terms[t].active
                          /\ terms'[t].pty = terms[t].pty
                          /\ terms'[t].terminated = terms[t].terminated
                          /\ websockets'[s] # {} =>
                                 terms'[t].output_callbacks =
                                     terms[t].output_callbacks]_vars
    /\ [](\A w \in Clients :
             ( /\ conn[w].pc = "bound"
               /\ sessions[conn[w].sid] = attachAt[w].term
               /\ Quiet(conn[w].sid) )
             => Received(w) = (attachAt[w].pos + 1)..Len(pubLog[conn[w].sid]))

\* C15 witness: a client has left, and one that stayed has been sent a chunk
\* that was read after both were added and that the other was not sent.
C15_Witness ==
    \E w, v \in Clients :
        /\ conn[w].pc = "bound" /\ conn[v].pc = "closed"
        /\ attachAt[v].term # None
        /\ sessions[conn[w].sid] = attachAt[w].term
        /\ \E k \in Received(w) : k > attachAt[v].pos /\ k \notin Received(v)

\* C16: while the analyzer call made for a connection is in flight (it may
\* never return), an input or resize frame that has arrived on the
\* connection can be handled: the step of the message loop that applies it
\* to the Terminal is enabled.
C16_InboundNotBlocked ==
    \A w \in Clients :
        ( /\ inbound[w].pc = "analyzing"
          /\ inbox[w] # <<>>
          /\ dispatch(Head(inbox[w])) \in {"input", "resize"} )
        => ENABLED (\E raises \in BOOLEAN : HandleMessage(w, raises))

\* The loading flags of the llm_response frames w has been sent, leaving
\* out the frames that have no loading key
LoadingFlags(w) ==
    LET fs == SelectSeq(sent[w], LAMBDA f : f.kind = "llm_response"
                                           /\ f.loading # "absent")
    IN [i \in 1..Len(fs) |-> fs[i].loading]

\* true, false, true, false, ... for n requests, the last one still waiting
\* for the analyzer if pending
ExpectedFlags(n, pending) ==
    [i \in 1..(IF pending THEN 2 * n - 1 ELSE 2 * n) |->
        IF i % 2 = 1 THEN "true" ELSE "false"]

\* C17: on a connection whose peer is there, each llm_assist frame that
\* found its session has had one llm_response with loading true sent, and,
\* once the analysis is over (with the service's text or without), exactly
\* one with loading false after it, before anything of the next request;
\* the step on which the analyzer returns sends it.
C17_LoadingThenFinal ==
    /\ [](\A w \in Clients :
             inbound[w].peer = "open" =>
                 LoadingFlags(w) =
                     ExpectedFlags(inbound[w].llm, inbound[w].pc = "analyzing"))
    /\ [][\A w \in Clients, http \in {"ok", "fail"}, ws \in {"ok", "fail"} :
             (LlmReturn(w, http, ws) /\ inbound[w].peer = "open") =>
                 /\ Len(sent'[w]) = Len(sent[w]) + 1
                 /\ sent'[w][Len(sent'[w])].loading = "false"]_vars

\* C17 witness: two requests on one connection have been answered, the
\* second one after the service failed.
C17_Witness ==
    \E w \in Clients :
        /\ inbound[w].peer = "open" /\ inbound[w].pc = "idle"
        /\ inbound[w].llm = 2
        /\ LoadingFlags(w) = <<"true", "false", "true", "false">>
        /\ sent[w][Len(sent[w])].data = "unable to connect"

\* C18: when the analyzer's requests to the service fail (HTTP and
\* WebSocket both), the llm_response that ends the request carries
\* error true, and the connection stays open.
C18_FailureFlagged ==
    [][\A w \in Clients :
          (LlmReturn(w, "fail", "fail") /\ inbound[w].peer = "open") =>
              /\ sent'[w][Len(sent'[w])].kind = "llm_response"
              /\ sent'[w][Len(sent'[w])].error
              /\ conn'[w].pc = "bound"]_vars

\* The output callbacks on every Terminal
Callbacks == [t \in TermIds |-> terms[t].output_callbacks]

\* C19: /ws/abc-123 yields the id abc-123 while /ws/ and /ws/abc/def
\* yield none; handle_connection, given a path the pattern does not match,
\* closes with 1008 and leaves registry, handlers, clients and callbacks as
\* they were; given a path of an absent session whose creation fails, it
\* closes with 1011 and adds no client and no callback; only in the
\* remaining case, a matching path, is the client added to the session's
\* clients.
C19_PathGuardsBinding ==
    [][/\ extract_session_id(<<"/", "w", "s", "/", "a", "b", "c", "-", "1", "2", "3">>)
            = <<"a", "b", "c", "-", "1", "2", "3">>
       /\ extract_session_id(<<"/", "w", "s", "/">>) = <<>>
       /\ extract_session_id(<<"/", "w", "s", "/", "a", "b", "c", "/", "d", "e", "f">>)
            = <<>>
       /\ \A w \in Clients, p \in Paths, o \in StartOutcomes :
             ConnectPath(w, p, o) =>
                 LET id == extract_session_id(p) IN
                 IF id = <<>>
                 THEN /\ conn'[w].pc = "closed" /\ conn'[w].code = 1008
                      /\ UNCHANGED <<sessions, locks, nextTerm, terms, handlers,
                                     websockets>>
                 ELSE LET s == CHOOSE x \in SessionIds : <<x>> = id IN
                      IF sessions[s] = None /\ sessions'[s] = None
                      THEN /\ conn'[w].pc = "closed" /\ conn'[w].code = 1011
                           /\ websockets' = websockets
                           /\ Callbacks' = Callbacks
                      ELSE /\ conn'[w].pc \in {"adding", "bound"}
                           /\ conn'[w].sid = s
                           /\ websockets'[s] = websockets[s] \cup {w}]_vars

\* C19 witness: one client is attached through a matching path and another
\* was closed with 1008.
C19_Witness ==
    \E w, v \in Clients :
        /\ conn[w].pc = "bound" /\ w \in websockets[conn[w].sid]
        /\ conn[v].pc = "closed" /\ conn[v].code = 1008

\* A text frame that is no JSON, or no JSON object, or whose type is none
\* of input, resize and llm_assist
BadFrame(f) ==
    \/ f.json # "object"
    \/ f.type \notin {"input", "resize", "llm_assist"}

\* C20: handling a frame that is not valid JSON or has an unknown type
\* changes no Terminal and no registry entry and sends nothing; the
\* connection stays bound and its message loop goes on to the next frame.
C20_BadFrameIgnored ==
    [][\A w \in Clients, raises \in BOOLEAN :
          (HandleMessage(w, raises) /\ BadFrame(Head(inbox[w]))) =>
              /\ UNCHANGED <<sessions, locks, terms, sent, conn, websockets>>
              /\ inbound'[w].pc = "idle"
              /\ inbound'[w].peer = inbound[w].peer
              /\ inbox'[w] = Tail(inbox[w])]_vars

\* C20 witness: on one connection a frame that is no JSON or of unknown
\* type was handled and then an input frame, which reached the PTY.
C20_Witness ==
    \E w \in Clients :
        /\ conn[w].pc = "bound"
        /\ Len(inbound[w].log) = 2
        /\ inbound[w].log[1] \in {"JSONDecodeError", "unknown"}
        /\ inbound[w].log[2] = "input"
        /\ sessions[conn[w].sid] # None
        /\ terms[sessions[conn[w].sid]].stdin = "x"

\* C21: when the send of an output frame to a client fails, that step
\* closes the client's connection and takes the client out of the handler's
\* set, the Terminal stays as it was and the other clients stay in the set.
C21_SendFailureDetaches ==
    [][\A h \in SessionIds, w \in Clients :
          (SendStep(h, w) /\ send_fails(w) /\ buffer_lock[h].holder.kind = "output") =>
              /\ conn'[w].pc = "closed"
              /\ w \notin websockets'[h]
              /\ terms' = terms /\ sessions' = sessions
              /\ websockets'[h] \ {w} = websockets[h] \ {w}]_vars

\* 1 <= rows <= 1000 and 1 <= cols <= 1000
InRange(size) == size[1] \in 1..1000 /\ size[2] \in 1..1000

\* C22: resize on a registered, active Terminal returns True only for a
\* size within 1..1000 both ways; for any other size it returns False and
\* the window size of the PTY stays as it was.
C22_ResizeRangeChecked ==
    [][\A s \in SessionIds, z \in WinSizes, raises \in BOOLEAN :
          ( /\ ResizeSession(s, z, raises)
            /\ sessions[s] # None /\ terms[sessions[s]].active )
          => /\ ret'.result = "True" => InRange(z)
             /\ ~InRange(z) =>
                    /\ ret'.result = "False"
                    /\ terms'[sessions[s]].winsize = terms[sessions[s]].winsize]_vars

\* C23: start() returns True exactly when it leaves the Terminal active
\* with a spawned child and a created read task; when it returns False the
\* Terminal is inactive and holds no live child.
C23_StartAllOrNothing ==
    [][\A t \in TermIds, ctx \in StartContexts, o \in StartOutcomes :
          TermStart(t, ctx, o) =>
              /\ ret'.result = "True" <=>
                     ( /\ terms'[t].active
                       /\ terms'[t].pty = "alive"
                       /\ terms'[t].read_task = "running" )
              /\ ret'.result = "False" =>
                     (~terms'[t].active /\ terms'[t].pty # "alive")]_vars

\* C24: stop() on an active Terminal cancels the read task, calls
\* pty.terminate(force=True) if the child is alive, clears active and returns
\* True; stop() on an inactive Terminal returns True and changes nothing, so
\* that a second stop() terminates nothing.
C24_StopIdempotent ==
    [][\A t \in TermIds, raises \in BOOLEAN :
          TermStop(t, raises) =>
              IF terms[t].active
              THEN /\ ret'.result = "True"
                   /\ ~terms'[t].active
                   /\ terms'[t].read_task \notin {"running", "reading"}
                   /\ terms'[t].pty # "alive"
                   /\ terms'[t].terminated =
                          terms[t].terminated + (IF terms[t].pty = "alive" THEN 1 ELSE 0)
              ELSE /\ ret'.result = "True"
                   /\ terms' = terms]_vars

\* C25: no step of a Terminal's life (construction, start, a read of the
\* read loop, write, read, resize, stop, the child's exit) makes its
\* last_activity smaller, the clock being one that does not go back.
C25_LastActivityMonotone ==
    [][\A t \in TermIds : terms'[t].last_activity >= terms[t].last_activity]_vars

\* C25 witness: a Terminal that was written to, resized and read by its
\* read loop at some time has been stopped at a later time, and its
\* last_activity lies after its construction.
C25_Witness ==
    \E t \in TermIds :
        /\ t < nextTerm
        /\ ret.op = "stop" /\ ret.result = "True"
        /\ terms[t].stdin # "" /\ terms[t].winsize # DefaultSize
        /\ pubLog[terms[t].session_id] # <<>>
        /\ terms[t].last_activity > 0
        /\ terms[t].last_activity < now

\* C26: whatever add_message calls were made, the context of an id begins
\* with the system message, holds after it the last min(n, 10) of the n
\* messages added for the id, in the order they were added, and nothing of
\* another id; after 12 user messages that is the system message and
\* messages 3 to 12.
C26_ContextCapped ==
    \A s \in ContextIds :
        LET c == contexts["direct"][s] IN
        IF added[s] = <<>> THEN c = <<>>
        ELSE /\ c[1] = Message("system", "system_prompt", 0)
             /\ Len(c) <= 11
             /\ Tail(c) = LastN(added[s], 10)
             /\ Len(added[s]) = 12 =>
                    /\ Len(c) = 11
                    /\ \A i \in 2..11 : c[i].seq = i + 1

\* C26 witness: 12 user messages were added for one id.
C26_Witness ==
    \E s \in ContextIds :
        /\ Len(added[s]) = 12
        /\ \A i \in 1..12 : added[s][i].role = "user"
        /\ Len(contexts["direct"][s]) = 11
        /\ contexts["direct"][s][2].seq = 3

\* C27: when handle_message passes an llm_assist request to the analyzer,
\* the context the analyzer is called with is the system message followed
\* by the last ten of the prompts and replies of the requests made for that
\* session so far, this request's prompt being the last of them, and the
\* adapter holds nothing under another id.
C27_ContextSessionScoped ==
    [][\A w \in Clients, raises \in BOOLEAN :
          (HandleMessage(w, raises) /\ inbound'[w].pc = "analyzing") =>
              LET s == conn[w].sid IN
              /\ contexts'[w][s] # <<>>
              /\ Tail(contexts'[w][s]) = LastN(added'[s], 10)
              /\ \A x \in ContextIds \ {s} : contexts'[w][x] = <<>>]_vars

PumpTasks(t) == IF terms[t].read_task \in {"running", "reading"} THEN 1 ELSE 0

\* C29: an active Terminal has exactly one task reading its PTY: its read
\* task exists and has not ended, however start() was called and however
\* the read loop ended; and no read() passthrough calls pty.read while the
\* read task is inside pty.read.
C29_OnePumpWhileActive ==
    /\ [](\A t \in TermIds : terms[t].active => PumpTasks(t) = 1)
    /\ [][\A t \in TermIds, o \in ReadOutcomes :
             (TermRead(t, o) /\ terms[t].active /\ terms[t].pty # "none") =>
                 terms[t].read_task # "reading"]_vars

\* C30: whenever the read loop ends, after the child's exit or otherwise,
\* it leaves the Terminal inactive; and on an inactive Terminal write and
\* resize return False.
C30_ExitDeactivates ==
    [][/\ \A t \in TermIds :
             (PumpSubmit(t) /\ terms'[t].read_task = "done") => ~terms'[t].active
       /\ \A t \in TermIds, o \in ReadOutcomes, d \in ChunkData :
             (PumpDeliver(t, o, d) /\ terms'[t].read_task = "done") =>
                 ~terms'[t].active
       /\ \A t \in TermIds, d \in InputData, raises \in BOOLEAN :
             (TermWrite(t, d, raises) /\ ~terms[t].active) => ret'.result = "False"
       /\ \A t \in TermIds, z \in WinSizes, raises \in BOOLEAN :
             (TermResize(t, z, raises) /\ ~terms[t].active) =>
                 ret'.result = "False"]_vars

\* C31: when a read of the read loop fails with an I/O error that is
\* neither would-block nor EOF, the loop ends and leaves the Terminal
\* inactive, so that write and resize fail from then on; when the read
\* would block, the loop goes on to its sleep and its next read, and the
\* Terminal and the output tasks stay as they were.
C31_IoErrorEndsPump ==
    [][\A t \in TermIds, d \in ChunkData :
          /\ PumpDeliver(t, "error", d) =>
                 /\ terms'[t].read_task = "done"
                 /\ ~terms'[t].active
          /\ PumpDeliver(t, "eagain", d) =>
                 /\ terms'[t] = [terms[t] EXCEPT !.read_task = "running"]
                 /\ ready' = ready]_vars

\* The message loop of w's connection has ended and remove_websocket has
\* returned for it.
Removed(w) == conn[w].pc = "closed" /\ attachAt[w].term # None

C33_PumpNeverWaits ==
    /\ [](\A t \in TermIds :
             /\ terms[t].read_task = "running" => ENABLED PumpSubmit(t)
             /\ (terms[t].read_task = "reading"
                   /\ Len(pubLog[terms[t].session_id]) < MaxPublish) =>
                    ENABLED (\E d \in ChunkData : PumpDeliver(t, "data", d)))
    /\ [][\A t \in TermIds, d \in ChunkData :
             PumpDeliver(t, "data", d) =>
                 /\ terms'[t].read_task = "running"
                 /\ Len(ready') = Len(ready) + Len(terms[t].output_callbacks)
                 /\ UNCHANGED <<buffer_lock, sent, output_buffer>>]_vars

\* C33 witness: while the task of the first chunk holds the lock with a
\* send to make, the read loop has read the second chunk and is on its way
\* to the next read.
C33_Witness ==
    \E s \in SessionIds :
        /\ buffer_lock[s].holder.kind = "output"
        /\ buffer_lock[s].holder.idx = 1
        /\ buffer_lock[s].holder.todo # {}
        /\ Len(pubLog[s]) = 2
        /\ sessions[s] # None
        /\ terms[sessions[s]].read_task \in {"running", "reading"}

\* Connection w is in the subscriber set of some session's handler.
Subscribed(w) == \E s \in SessionIds : w \in websockets[s]

\* C34: a connection is opening (not yet added), then bound (in the
\* subscriber set of its session's handler), then closing, or goes from
\* opening straight to closing: it is added only while opening, to one
\* session, it leaves the set only on the step that ends its message loop,
\* whatever ended it, and that step always takes it out; once closed it is
\* in no set and stays closed.
C34_ConnectionLifecycle ==
    /\ [](\A w \in Clients :
             /\ conn[w].pc = "new" => ~Subscribed(w)
             /\ conn[w].pc = "closed" => ~Subscribed(w)
             /\ conn[w].pc \in {"adding", "bound"} =>
                    \A s \in SessionIds : w \in websockets[s] <=> s = conn[w].sid)
    /\ [][\A w \in Clients :
             /\ (~Subscribed(w) /\ Subscribed(w)') => conn[w].pc = "new"
             /\ (Subscribed(w) /\ ~Subscribed(w)') =>
                    (Disconnect(w) /\ conn'[w].pc = "closed")
             /\ Disconnect(w) => (~Subscribed(w)' /\ conn'[w].pc = "closed")
             /\ conn[w].pc = "closed" => conn'[w].pc = "closed"
             /\ conn[w].pc \in {"adding", "bound"} => conn'[w].pc # "new"]_vars

\* C34 witness: of two connections, one was bound, has lost its peer and
\* been removed, and the other was closed before it was ever added.
C34_Witness ==
    \E w, v \in Clients :
        /\ w # v
        /\ Removed(w) /\ inbound[w].peer = "closed"
        /\ conn[v].pc = "closed" /\ conn[v].code = 1011

\* C35: a reaper tick closes no registered Terminal whose idle time, the
\* time of the tick minus its last_activity, is at most idle_timeout: the
\* id stays registered to the same Terminal with its lock entry, and the
\* Terminal (active flag, child, callbacks, read task) and the clients of
\* its session are as they were, whatever the tick does to other sessions.
C35_ReaperSparesActive ==
    [][\A raising \in SUBSET RegistryIds, s \in RegistryIds :
          ( /\ ReaperTick(raising)
            /\ sessions[s] # None
            /\ now - terms[sessions[s]].last_activity <= idle_timeout )
          => /\ sessions'[s] = sessions[s]
             /\ (s \in locks') <=> (s \in locks)
             /\ terms'[sessions[s]] = terms[sessions[s]]
             /\ websockets' = websockets]_vars

\* C35 witness: after a tick that closed one session, the other, whose
\* idle time is exactly idle_timeout, is registered and active with its
\* client's callback.
C35_Witness ==
    /\ ret.op = "cleanup"
    /\ \E s \in RegistryIds :
          /\ sessions[s] # None
          /\ terms[sessions[s]].active
          /\ terms[sessions[s]].output_callbacks # <<>>
          /\ now - terms[sessions[s]].last_activity = idle_timeout
    /\ \E t \in TermIds : terms[t].terminated = 1 /\ ~terms[t].active

\* C36: a write or a resize that returns False, because the Terminal is
\* inactive or because the PTY operation raised, leaves last_activity as it
\* was.
C36_FailedIoKeepsActivity ==
    [][\A t \in TermIds, raises \in BOOLEAN :
          /\ \A d \in InputData :
                 (TermWrite(t, d, raises) /\ ret'.result = "False") =>
                     terms'[t].last_activity = terms[t].last_activity
          /\ \A z \in WinSizes :
                 (TermResize(t, z, raises) /\ ret'.result = "False") =>
                     terms'[t].last_activity = terms[t].last_activity]_vars

\* C37: the backlog a newly attached client is primed with holds only
\* output of the Terminal registered under the id: a client whose
\* connection creates the session anew, after an earlier session of the id
\* was closed, attaches to a Terminal that has produced nothing and is
\* primed with nothing.
C37_BacklogOfCurrentTerminal ==
    [][\A w \in Clients, s \in SessionIds, o \in StartOutcomes :
          ( /\ Connect(w, s, o)
            /\ sessions[s] = None
            /\ sessions'[s] = nextTerm )
          => /\ attachAt'[w].backlog = <<>>
             /\ conn'[w].pc = "bound"]_vars

\* C38: a client whose send does not complete holds up nobody else: while
\* an output task has only the send to that client left to make, a task
\* that waits to send a later chunk, or the backlog, to the other clients of
\* the session can go ahead.
C38_SlowClientIsolated ==
    \A s \in SessionIds, w \in Clients :
        ( /\ buffer_lock[s].holder.kind # "none"
          /\ buffer_lock[s].holder.todo = {w}
          /\ websockets[s] \ {w} # {}
          /\ buffer_lock[s].waiters # <<>> )
        => ENABLED (\/ Wake(s)
                    \/ \E v \in Clients \ {w} : SendStep(s, v))

\* C39: when a callback raises while the read loop publishes a chunk, each
\* of the other callbacks is still called with the chunk, in list order
\* (one output task per handler's callback, carrying that chunk), the read
\* loop goes on to its next read and the Terminal stays active.
C39_CallbackFailureContained ==
    [][\A t \in TermIds, d \in ChunkData :
          ( /\ PumpDeliver(t, "data", d)
            /\ \E i \in 1..Len(terms[t].output_callbacks) :
                   terms[t].output_callbacks[i] = Raiser )
          => LET others == SelectSeq(terms[t].output_callbacks,
                                     LAMBDA cb : cb # Raiser)
                 n == Len(ready)
             IN /\ Len(ready') = n + Len(others)
                /\ SubSeq(ready', 1, n) = ready
                /\ \A i \in 1..Len(others) :
                       /\ ready'[n + i].handler = others[i].handler
                       /\ ready'[n + i].data = d
                       /\ ready'[n + i].idx = Len(pubLog'[terms[t].session_id])
                /\ terms'[t].active = terms[t].active
                /\ terms'[t].read_task = "running"
                /\ terms'[t].output_callbacks = terms[t].output_callbacks]_vars

\* C39 witness: on a Terminal whose first callback raises and which has a
\* handler's callback after it, a client has been sent two chunks read
\* after it was added, and the Terminal is active.
C39_Witness ==
    \E w \in Clients :
        /\ conn[w].pc = "bound"
        /\ sessions[conn[w].sid] = attachAt[w].term
        /\ LET T == terms[attachAt[w].term] IN
             /\ T.active
             /\ Len(T.output_callbacks) >= 2
             /\ T.output_callbacks[1] = Raiser
             /\ T.output_callbacks[2] # Raiser
        /\ Received(w) = {attachAt[w].pos + 1, attachAt[w].pos + 2}

====
